---- MODULE Spec2Model ----
(***************************************************************************)
(* A model of the replicate-rs client library: the prediction factory      *)
(* (PredictionClient::create with ModelClient::get_latest_version), the    *)
(* directory operations (get, list, cancel), the Prediction entity         *)
(* (reload, get_stream) and the shared error mapping (get_error).          *)
(*                                                                         *)
(* The remote service is the environment: every response (status, body,    *)
(* transport failure) is a nondeterministic choice from bounded sets.      *)
(* Every request the library sends is appended to the log `reqs`, every    *)
(* response it receives to the log `resps`.                                *)
(***************************************************************************)
EXTENDS Integers, Sequences, FiniteSets, TLC

VARIABLES
    config,     \* the ReplicateConfig held by the client: [api_key, base_url]
    env,        \* the REPLICATE_API_KEY environment variable (Option)
    key_cell,   \* the process-wide OnceLock REPLICATE_API_KEY of lib.rs (Option)
    self,       \* the Prediction entity the caller owns (Option)
    pc,         \* position of the running call: "idle" or an await point
    call,       \* the call in progress or last finished: its name and arguments
    reqs,       \* log of the requests sent by the current call
    resps,      \* log of the responses received by the current call
    ret,        \* Option: the value returned by the finished call
    streams     \* the event streams get_stream has returned, in order of creation

vars == <<config, env, key_cell, self, pc, call, reqs, resps, ret, streams>>

----------------------------------------------------------------------------
(* Bounds of the model.                                                    *)

\* number of distinct server-side records (ids, versions, urls, ...)
NumProfiles == 2
\* longest version list the resolver endpoint returns
MaxVersions == 2
\* longest page of predictions the list endpoint returns
MaxResults == 2
\* most event streams a caller opens in one run
MaxStreams == 2
\* most events the service sends on one stream connection
MaxEvents == 2
\* most calls of api_key() in one run
MaxCalls == 3

----------------------------------------------------------------------------
(* Option and Result.                                                      *)

None == <<>>
Some(x) == <<x>>
IsSome(o) == Len(o) = 1
Unwrap(o) == o[1]

Ok(v) == [ok |-> TRUE, val |-> v]
Err(e) == [ok |-> FALSE, err |-> e]

----------------------------------------------------------------------------
(* The error taxonomy (errors.rs) and the untyped anyhow errors.           *)

ReplicateError(kind, message) == [kind |-> kind, msg |-> message]

\* anyhow::Error: an opaque box around the error that `?` or anyhow!() put in
Anyhow(source) == [kind |-> "anyhow::Error", source |-> source]

\* serde_json::Error and reqwest::Error, as values of foreign error types
SerdeError == [kind |-> "serde_json::Error", msg |-> <<"serde_json">>]
ReqwestError == [kind |-> "reqwest::Error", msg |-> <<"reqwest">>]

\* err.to_string() of a foreign error
to_string(e) == e.msg

GenericMessage == <<"error details not available">>

\* format!("{}: {}", data.title, data.detail)
FormatTitleDetail(data) == <<data.title, ": ", data.detail>>

----------------------------------------------------------------------------
(* JSON bodies the service may send, and their decoding by serde.          *)

JsonNull == <<"null", 0>>

Profiles == 1 .. NumProfiles

JsonStatuses == {"starting", "processing", "succeeded", "failed", "canceled", "queued"}

\* the JSON object of one prediction as the service sends it
JsonPrediction(i, st, strm, out) ==
    [id |-> <<"id", i>>, model |-> <<"model", i>>, version |-> <<"version", i>>,
     input |-> <<"input", i>>, status |-> st, created_at |-> <<"created_at", i>>,
     urls |-> [cancel |-> <<"cancel_url", i>>, get |-> <<"get_url", i>>,
               stream |-> strm],
     output |-> out]

JsonPredictions ==
    UNION { { JsonPrediction(i, st, strm, out) :
                st \in JsonStatuses,
                strm \in {JsonNull, <<"stream_url", i>>},
                out \in {JsonNull, <<"output", i>>} } : i \in Profiles }

\* #[serde(rename_all = "lowercase")] enum PredictionStatus
PredictionStatus(s) ==
    CASE s = "starting" -> Some("Starting")
      [] s = "processing" -> Some("Processing")
      [] s = "succeeded" -> Some("Succeeded")
      [] s = "failed" -> Some("Failed")
      [] s = "canceled" -> Some("Canceled")
      [] OTHER -> None

\* an Option<T> field read as a plain value: null becomes Some(null)
JsonOption_plain(v) == Some(v)

\* an Option<T> field: null (or a missing key) is None, a value is Some
JsonOption(v) == IF v = JsonNull THEN None ELSE Some(v)

\* the response bodies, by what they hold
PredictionBody(j) == [kind |-> "prediction", json |-> j]
ErrorBody(t, d) == [kind |-> "error", title |-> t, detail |-> d]
TitleOnlyBody == [kind |-> "title_only", title |-> "Unauthenticated"]
TextBody == [kind |-> "text"]

Titles == {"Unauthenticated", "Payment Required"}
Details == {"You did not pass an authentication token", "Add a payment method"}

ErrorBodies == { ErrorBody(t, d) : t \in Titles, d \in Details }
PredictionBodies == { PredictionBody(j) : j \in JsonPredictions }

\* serde_json::from_str::<Prediction>(data).ok()
DecodePrediction(data) ==
    IF data.kind = "prediction" /\ IsSome(PredictionStatus(data.json.status))
    THEN Some([id |-> data.json.id, model |-> data.json.model,
               version |-> data.json.version, input |-> data.json.input,
               status |-> Unwrap(PredictionStatus(data.json.status)),
               created_at |-> data.json.created_at,
               urls |-> [cancel |-> data.json.urls.cancel, get |-> data.json.urls.get,
                         stream |-> JsonOption(data.json.urls.stream)],
               output |-> JsonOption(data.json.output)])
    ELSE None

\* serde_json::from_str::<ErrorData>(data).ok()
DecodeErrorData(data) ==
    IF data.kind = "error"
    THEN Some([title |-> data.title, detail |-> data.detail])
    ELSE None

\* get_error with the UNAUTHORIZED arm left out: 401 falls through to Misc
get_error_no401(status, data) ==
    LET kind == IF status = 402 THEN "PaymentNeeded" ELSE "Misc"
        parsed == DecodeErrorData(data)
    IN  IF IsSome(parsed)
        THEN ReplicateError(kind, FormatTitleDetail(Unwrap(parsed)))
        ELSE ReplicateError(kind, GenericMessage)

get_error(status, data) ==
    LET kind == CASE status = 402 -> "PaymentNeeded"
                  [] status = 401 -> "InvalidCredentials"
                  [] OTHER -> "Misc"
        parsed == DecodeErrorData(data)
    IN  IF IsSome(parsed)
        THEN ReplicateError(kind, FormatTitleDetail(Unwrap(parsed)))
        ELSE ReplicateError(kind, GenericMessage)

----------------------------------------------------------------------------
(* The transport: what one send().await / text().await can end in.         *)

HttpStatuses == {200, 201, 202, 401, 402, 404, 500}

\* send() failed: no response
SendFailed == [t |-> "send_failed"]
\* the response head arrived, reading the body failed
TextFailed(status) == [t |-> "text_failed", status |-> status]
Response(status, body) == [t |-> "response", status |-> status, body |-> body]

Outcomes(bodies) ==
    {SendFailed} \cup { TextFailed(s) : s \in HttpStatuses }
                 \cup { Response(s, b) : s \in HttpStatuses, b \in bodies }

\* the header written in the bearer scheme
AuthHeader_bearer(api_key) == <<"Authorization", <<"Bearer ", api_key>>>>

AuthHeader(api_key) == <<"Authorization", <<"Token ", api_key>>>>

Request(method, url, headers, body) ==
    [method |-> method, url |-> url, headers |-> headers, body |-> body]

----------------------------------------------------------------------------
(* ReplicateConfig (config.rs).                                            *)

BaseUrl == "https://api.replicate.com/v1"

Configs == { [api_key |-> k, base_url |-> BaseUrl] : k \in {None, Some("test-api-key")} }

\* get_api_key answering with an empty key when the config holds none
get_api_key_empty(cfg) ==
    IF IsSome(cfg.api_key) THEN Ok(Unwrap(cfg.api_key)) ELSE Ok("")

get_api_key(cfg) ==
    IF IsSome(cfg.api_key)
    THEN Ok(Unwrap(cfg.api_key))
    ELSE Err(ReplicateError("MissingCredentials",
                            <<"REPLICATE_API_KEY not provided in environment variable">>))

get_base_url(cfg) == cfg.base_url

----------------------------------------------------------------------------
(* ModelClient::list_versions and get_latest_version (models.rs).          *)

\* the JSON object of one model version
JsonVersion(i) ==
    [id |-> <<"version", i>>, created_at |-> <<"created_at", i>>,
     cog_version |-> <<"cog_version", i>>, openapi_schema |-> JsonNull]

SeqsUpTo(S, n) == UNION { [1 .. k -> S] : k \in 0 .. n }

VersionsBody(results) ==
    [kind |-> "versions", next |-> JsonNull, previous |-> JsonNull, results |-> results]

VersionsBodies ==
    { VersionsBody(r) : r \in SeqsUpTo({ JsonVersion(i) : i \in Profiles }, MaxVersions) }

\* serde_json::from_str::<ModelVersions>(data).ok()
DecodeModelVersions(data) ==
    IF data.kind = "versions"
    THEN Some([next |-> JsonOption(data.next), previous |-> JsonOption(data.previous),
               results |-> data.results])
    ELSE None

VersionsUrl(base_url, owner, name) == <<base_url, "/models/", owner, "/", name, "/versions">>

\* what list_versions makes of the outcome of its request
list_versions(o) ==
    IF o.t \in {"send_failed", "text_failed"}
    THEN Err(ReplicateError("ClientError", to_string(ReqwestError)))
    ELSE IF o.status = 200
         THEN IF IsSome(DecodeModelVersions(o.body))
              THEN Ok(Unwrap(DecodeModelVersions(o.body)))
              ELSE Err(ReplicateError("SerializationError", to_string(SerdeError)))
         ELSE Err(get_error(o.status, o.body))

NoVersionsMessage == <<"no versions found for {owner}/{name}">>

\* get_latest_version taking the last entry of the list instead of the first
get_latest_version_last(listed) ==
    IF ~listed.ok THEN listed
    ELSE IF Len(listed.val.results) = 0
         THEN Err(ReplicateError("Misc", NoVersionsMessage))
         ELSE Ok(listed.val.results[Len(listed.val.results)])

\* get_latest_version falling back to a default version on an empty list
get_latest_version_default(listed) ==
    IF ~listed.ok THEN listed
    ELSE IF Len(listed.val.results) = 0
         THEN Ok(JsonVersion(1))
         ELSE Ok(listed.val.results[1])

\* get_latest_version, applied to the result of its list_versions call
get_latest_version(listed) ==
    IF ~listed.ok THEN listed
    ELSE IF Len(listed.val.results) = 0
         THEN Err(ReplicateError("Misc", NoVersionsMessage))
         ELSE Ok(listed.val.results[1])

----------------------------------------------------------------------------
(* PredictionClient::create (predictions.rs).                              *)

Models == { [owner |-> "replicate", name |-> "hello-world"],
            [owner |-> "meta", name |-> "llama-2-70b-chat"] }

Inputs == { <<"text", 1>>, <<"text", 2>> }

PredictionsUrl(base_url) == <<base_url, "/predictions">>

\* struct PredictionInput, serialized
PredictionInput(version, input, stream) ==
    [version |-> version, input |-> input, stream |-> stream]

\* create's match on the response: every successful status accepted
create_response_any_2xx(o) ==
    IF o.t = "send_failed"
    THEN Err(ReplicateError("ClientError", to_string(ReqwestError)))
    ELSE IF o.t = "text_failed"
         THEN Err(ReplicateError("ClientError", to_string(ReqwestError)))
         ELSE IF o.status \in 200 .. 299
              THEN IF IsSome(DecodePrediction(o.body))
                   THEN Ok(Unwrap(DecodePrediction(o.body)))
                   ELSE Err(ReplicateError("SerializationError", to_string(SerdeError)))
              ELSE Err(get_error(o.status, o.body))

\* what create makes of the outcome of its POST
create_response(o) ==
    IF o.t = "send_failed"
    THEN Err(ReplicateError("ClientError", to_string(ReqwestError)))
    ELSE IF o.t = "text_failed"
         THEN Err(ReplicateError("ClientError", to_string(ReqwestError)))
         ELSE IF o.status \in {200, 201}
              THEN IF IsSome(DecodePrediction(o.body))
                   THEN Ok(Unwrap(DecodePrediction(o.body)))
                   ELSE Err(ReplicateError("SerializationError", to_string(SerdeError)))
              ELSE Err(get_error(o.status, o.body))

\* create up to its first await: the credentials check, then the request of
\* list_versions
CreateStart ==
    /\ pc = "idle"
    /\ \E m \in Models, input \in Inputs, stream \in BOOLEAN :
         call' = [op |-> "create", owner |-> m.owner, name |-> m.name,
                  input |-> input, stream |-> stream]
    /\ resps' = <<>>
    /\ IF get_api_key(config).ok
       THEN /\ reqs' = << Request("GET",
                                  VersionsUrl(get_base_url(config), call'.owner, call'.name),
                                  {AuthHeader(get_api_key(config).val)}, None) >>
            /\ pc' = "create_list_versions"
            /\ ret' = None
       ELSE /\ reqs' = <<>>
            /\ pc' = "idle"
            /\ ret' = Some(Err(get_api_key(config).err))
    /\ UNCHANGED <<streams, config, env, key_cell, self>>

\* the resolver's answer arrives, and is sent again when the transport failed
CreateVersionsResp_retry ==
    /\ pc = "create_list_versions"
    /\ \E o \in Outcomes(VersionsBodies \cup ErrorBodies \cup {TitleOnlyBody, TextBody}) :
         LET latest == get_latest_version(list_versions(o))
         IN  /\ resps' = Append(resps, o)
             /\ IF latest.ok
                THEN /\ reqs' = Append(reqs,
                            Request("POST", PredictionsUrl(get_base_url(config)),
                                    {AuthHeader(get_api_key(config).val)},
                                    Some(PredictionInput(latest.val.id, call.input,
                                                         call.stream))))
                     /\ pc' = "create_post"
                     /\ ret' = None
                ELSE IF o.t = "send_failed"
                     THEN /\ reqs' = Append(reqs, reqs[1])
                          /\ pc' = "create_list_versions"
                          /\ ret' = None
                     ELSE /\ reqs' = reqs
                          /\ pc' = "idle"
                          /\ ret' = Some(Err(latest.err))
    /\ UNCHANGED <<streams, config, env, key_cell, self, call>>

\* the resolver's answer arrives: create fails, or builds the body and POSTs it
CreateVersionsResp ==
    /\ pc = "create_list_versions"
    /\ \E o \in Outcomes(VersionsBodies \cup ErrorBodies \cup {TitleOnlyBody, TextBody}) :
         LET latest == get_latest_version(list_versions(o))
         IN  /\ resps' = Append(resps, o)
             /\ IF latest.ok
                THEN /\ reqs' = Append(reqs,
                            Request("POST", PredictionsUrl(get_base_url(config)),
                                    {AuthHeader(get_api_key(config).val)},
                                    Some(PredictionInput(latest.val.id, call.input,
                                                         call.stream))))
                     /\ pc' = "create_post"
                     /\ ret' = None
                ELSE /\ reqs' = reqs
                     /\ pc' = "idle"
                     /\ ret' = Some(Err(latest.err))
    /\ UNCHANGED <<streams, config, env, key_cell, self, call>>

\* the answer to the POST arrives and create returns
CreateResp ==
    /\ pc = "create_post"
    /\ \E o \in Outcomes(PredictionBodies \cup ErrorBodies \cup {TitleOnlyBody, TextBody}) :
         /\ resps' = Append(resps, o)
         /\ ret' = Some(create_response(o))
    /\ pc' = "idle"
    /\ UNCHANGED <<streams, config, env, key_cell, self, call, reqs>>

NoCall == [op |-> "none"]

InitCreate ==
    /\ config \in Configs
    /\ env = None
    /\ key_cell = None
    /\ self = None
    /\ pc = "idle"
    /\ call = NoCall
    /\ reqs = <<>>
    /\ resps = <<>>
    /\ ret = None
    /\ streams = <<>>

NextCreate == CreateStart \/ CreateVersionsResp \/ CreateResp

SpecCreate == InitCreate /\ [][NextCreate]_vars

----------------------------------------------------------------------------
(* Properties of PredictionClient::create, checked under SpecCreate.       *)

InCreate == call.op = "create"

\* the version-resolve request of the running create call
IsResolveRequest(r) ==
    /\ r.method = "GET"
    /\ r.url = <<BaseUrl, "/models/", call.owner, "/", call.name, "/versions">>

\* the create request
IsCreateRequest(r) ==
    /\ r.method = "POST"
    /\ r.url = <<BaseUrl, "/predictions">>

ResolveIndexes == { i \in DOMAIN reqs : IsResolveRequest(reqs[i]) }
CreateIndexes == { i \in DOMAIN reqs : IsCreateRequest(reqs[i]) }

\* the resolver answered 200 with a version list of at least n entries
ResolvedAtLeast(n) ==
    /\ Len(resps) >= 1
    /\ resps[1].t = "response"
    /\ resps[1].status = 200
    /\ resps[1].body.kind = "versions"
    /\ Len(resps[1].body.results) >= n

\* C1: when the model has at least one version, create sends the resolve
\* request strictly before the create request, and the `version` field of the
\* create body is the id of the first entry of the returned version list.
C1_ResolveBeforeCreate ==
    InCreate =>
        /\ \A j \in CreateIndexes :
             /\ \E i \in ResolveIndexes : i < j /\ i <= Len(resps)
             /\ ResolvedAtLeast(1)
             /\ IsSome(reqs[j].body)
             /\ Unwrap(reqs[j].body).version = resps[1].body.results[1].id
        /\ ResolvedAtLeast(1) =>
             /\ Len(reqs) = 2
             /\ IsResolveRequest(reqs[1])
             /\ IsCreateRequest(reqs[2])

\* a create call has sent its POST after a version list of two different entries
C1_Witness ==
    /\ InCreate
    /\ pc = "create_post"
    /\ ResolvedAtLeast(2)
    /\ resps[1].body.results[1].id # resps[1].body.results[2].id
    /\ CreateIndexes = {2}

\* the error get_latest_version gives for a model without versions
NotFoundClass(e) == e.kind = "Misc" /\ e.msg = <<"no versions found for {owner}/{name}">>

ResolvedEmpty == ResolvedAtLeast(0) /\ Len(resps[1].body.results) = 0

\* C2: when the resolver returns an empty version list, create fails with the
\* "no versions found" error and never sends the POST to {base}/predictions.
C2_NoVersionsNoCreate ==
    (InCreate /\ ResolvedEmpty) =>
        /\ pc = "idle"
        /\ IsSome(ret)
        /\ ~Unwrap(ret).ok
        /\ NotFoundClass(Unwrap(ret).err)
        /\ CreateIndexes = {}
        /\ Len(reqs) = 1

\* a create call has finished on an empty version list
C2_Witness == InCreate /\ ResolvedEmpty /\ IsSome(ret)

\* C3: in every execution of create the resolver request is sent at most once
\* and the create POST at most once; a successful create has sent exactly one
\* of each, and a failed create has sent nothing after the failing answer.
C3_NoRetries ==
    InCreate =>
        /\ Cardinality(ResolveIndexes) <= 1
        /\ Cardinality(CreateIndexes) <= 1
        /\ Len(reqs) <= 2
        /\ Len(reqs) <= Len(resps) + 1
        /\ (IsSome(ret) /\ Unwrap(ret).ok) =>
             /\ Len(reqs) = 2
             /\ Len(resps) = 2
             /\ ResolveIndexes = {1}
             /\ CreateIndexes = {2}
        /\ (IsSome(ret) /\ ~Unwrap(ret).ok) =>
             /\ pc = "idle"
             /\ Len(reqs) = Len(resps)

\* a create call has failed on a transport failure of the resolver request
C3_Witness ==
    /\ InCreate
    /\ IsSome(ret)
    /\ ~Unwrap(ret).ok
    /\ Len(resps) = 1
    /\ resps[1].t = "send_failed"

\* the taxonomy of section 7, stated on its own
TaxonomyKind(status) ==
    IF status = 402 THEN "PaymentNeeded"
    ELSE IF status = 401 THEN "InvalidCredentials" ELSE "Misc"

TaxonomyMessage(body) ==
    IF body.kind = "error" THEN <<body.title, ": ", body.detail>>
    ELSE <<"error details not available">>

StatusNames ==
    [starting |-> "Starting", processing |-> "Processing", succeeded |-> "Succeeded",
     failed |-> "Failed", canceled |-> "Canceled"]

\* an Option field of a record, from the JSON value the server sent
Reported(v) == IF v = <<"null", 0>> THEN <<>> ELSE <<v>>

\* the Prediction record a JSON object reports, field by field
AsReported(j) ==
    [id |-> j.id, model |-> j.model, version |-> j.version, input |-> j.input,
     status |-> StatusNames[j.status], created_at |-> j.created_at,
     urls |-> [cancel |-> j.urls.cancel, get |-> j.urls.get,
               stream |-> Reported(j.urls.stream)],
     output |-> Reported(j.output)]

CreateAnswered == InCreate /\ Len(resps) = 2 /\ IsSome(ret)

\* C4: create returns a Prediction only when the create response has status
\* 200 or 201 and a body that decodes as a Prediction, and the record carries
\* the status the server reported; for every other status it returns the
\* taxonomy error of that status and body, never a Prediction.
C4_CreateResult ==
    CreateAnswered =>
        /\ Unwrap(ret).ok =>
             /\ resps[2].t = "response"
             /\ resps[2].status \in {200, 201}
             /\ resps[2].body.kind = "prediction"
             /\ resps[2].body.json.status \in DOMAIN StatusNames
             /\ Unwrap(ret).val.status = StatusNames[resps[2].body.json.status]
             /\ Unwrap(ret).val = AsReported(resps[2].body.json)
        /\ (resps[2].t = "response" /\ resps[2].status \notin {200, 201}) =>
             /\ ~Unwrap(ret).ok
             /\ Unwrap(ret).err.kind = TaxonomyKind(resps[2].status)
             /\ Unwrap(ret).err.msg = TaxonomyMessage(resps[2].body)

\* create has returned, for a 201 answer, a Prediction whose status is not Starting
C4_Witness ==
    /\ CreateAnswered
    /\ Unwrap(ret).ok
    /\ Unwrap(ret).val.status = "Succeeded"
    /\ resps[2].status = 201

CreateReturned == CreateAnswered /\ Unwrap(ret).ok

\* the invariant of the data model, for a record and the stream flag of the
\* request that created it
DataModelInvariant(p, asked) ==
    /\ p.status \in {"Starting", "Processing"} => p.output = <<>>
    /\ p.urls.stream # <<>> => asked

\* the same, of the JSON record the server sent
ServedRecordConforms(j, asked) ==
    /\ j.status \in {"starting", "processing"} => j.output = <<"null", 0>>
    /\ j.urls.stream # <<"null", 0>> => asked

----------------------------------------------------------------------------
(* get_error as a function of its arguments, checked under SpecErr.        *)

ErrorStatuses == {201, 202, 301, 400, 401, 402, 403, 404, 422, 429, 500, 503}

AnyBodies == PredictionBodies \cup ErrorBodies \cup VersionsBodies \cup {TitleOnlyBody, TextBody}

InitErr ==
    /\ config \in Configs
    /\ env = None
    /\ key_cell = None
    /\ self = None
    /\ pc = "idle"
    /\ \E status \in ErrorStatuses, data \in AnyBodies :
         call = [op |-> "get_error", status |-> status, data |-> data]
    /\ reqs = <<>>
    /\ resps = <<>>
    /\ ret = None
    /\ streams = <<>>

GetError ==
    /\ call.op = "get_error"
    /\ ret = None
    /\ ret' = Some(get_error(call.status, call.data))
    /\ UNCHANGED <<streams, config, env, key_cell, self, pc, call, reqs, resps>>

NextErr == GetError

SpecErr == InitErr /\ [][NextErr]_vars

\* C5: for every non-2xx status and every body, get_error gives PaymentNeeded
\* for 402, InvalidCredentials for 401 and Misc for every other status, with
\* the message "<title>: <detail>" when the body decodes as a {title, detail}
\* object and "error details not available" otherwise.
C5_GetError ==
    (call.op = "get_error" /\ IsSome(ret) /\ call.status \notin 200 .. 299) =>
        /\ Unwrap(ret).kind = TaxonomyKind(call.status)
        /\ Unwrap(ret).kind \in {"PaymentNeeded", "InvalidCredentials", "Misc"}
        /\ Unwrap(ret).msg = TaxonomyMessage(call.data)

\* get_error has mapped a 401 with a {title, detail} body
C5_Witness ==
    /\ call.op = "get_error"
    /\ IsSome(ret)
    /\ call.status = 401
    /\ call.data.kind = "error"
    /\ Unwrap(ret).kind = "InvalidCredentials"

----------------------------------------------------------------------------
(* The process-wide api_key() of lib.rs, used by the Prediction entity.    *)

EnvKeys == {"key-1", "key-2"}

\* stands for a value of the variable that is not valid Unicode
NotUnicode == "<bytes that are not valid Unicode>"

\* what the environment can hold for REPLICATE_API_KEY: nothing, or a value
EnvValues == {None} \cup { Some(k) : k \in EnvKeys \cup {NotUnicode} }

\* std::env::var("REPLICATE_API_KEY") on the environment e
var(e) ==
    IF e = None THEN Err("NotPresent")
    ELSE IF Unwrap(e) = NotUnicode THEN Err("NotUnicode")
    ELSE Ok(Unwrap(e))

MissingEnvKey ==
    ReplicateError("MissingCredentials",
                   <<"REPLICATE_API_KEY not available in environment variables.">>)

\* api_key() returning the value read now, whatever the OnceLock holds
api_key_uncached(e, cell) ==
    IF var(e).ok
    THEN [res |-> Ok(var(e).val), cell |-> Some(var(e).val)]
    ELSE [res |-> Err(MissingEnvKey), cell |-> cell]

\* api_key(): [res |-> the result, cell |-> the OnceLock afterwards]
api_key(e, cell) ==
    IF var(e).ok
    THEN [res |-> Ok(IF IsSome(cell) THEN Unwrap(cell) ELSE var(e).val),
          cell |-> IF IsSome(cell) THEN cell ELSE Some(var(e).val)]
    ELSE [res |-> Err(MissingEnvKey), cell |-> cell]

\* the process environment changes the variable (std::env::set_var, remove_var)
EnvChange ==
    /\ \E e \in EnvValues :
         /\ e # env
         /\ env' = e
    /\ UNCHANGED <<streams, config, key_cell, self, pc, call, reqs, resps, ret>>

----------------------------------------------------------------------------
(* The Prediction entity: reload, get_status, get_stream (predictions.rs). *)

\* the records an entity can have been decoded from
Predictions == { Unwrap(DecodePrediction(b)) : b \in { x \in PredictionBodies :
                                                         IsSome(DecodePrediction(x)) } }

Unit == <<"()">>

\* reload merging the fetched record into the entity: an absent output keeps
\* the output held before
reload_response_merge(this, o) ==
    IF o.t \in {"send_failed", "text_failed"}
    THEN [self |-> this, ret |-> Err(Anyhow(ReqwestError))]
    ELSE IF IsSome(DecodePrediction(o.body))
         THEN [self |-> [Unwrap(DecodePrediction(o.body)) EXCEPT
                            !.output = IF @ = None THEN this.output ELSE @],
               ret |-> Ok(Unit)]
         ELSE [self |-> this, ret |-> Err(Anyhow(SerdeError))]

\* reload keeping the id the entity had, whatever the fetched record says
reload_response_keep_id(this, o) ==
    IF o.t \in {"send_failed", "text_failed"}
    THEN [self |-> this, ret |-> Err(Anyhow(ReqwestError))]
    ELSE IF IsSome(DecodePrediction(o.body))
         THEN [self |-> [Unwrap(DecodePrediction(o.body)) EXCEPT !.id = this.id],
               ret |-> Ok(Unit)]
         ELSE [self |-> this, ret |-> Err(Anyhow(SerdeError))]

\* reload assigning the fields one by one as they are read from the body, so
\* that a body failing at `status` has already overwritten the fields before it
reload_response_fieldwise(this, o) ==
    IF o.t \in {"send_failed", "text_failed"}
    THEN [self |-> this, ret |-> Err(Anyhow(ReqwestError))]
    ELSE IF IsSome(DecodePrediction(o.body))
         THEN [self |-> Unwrap(DecodePrediction(o.body)), ret |-> Ok(Unit)]
         ELSE IF o.body.kind = "prediction"
              THEN [self |-> [this EXCEPT !.id = o.body.json.id,
                                          !.model = o.body.json.model,
                                          !.version = o.body.json.version,
                                          !.input = o.body.json.input],
                    ret |-> Err(Anyhow(SerdeError))]
              ELSE [self |-> this, ret |-> Err(Anyhow(SerdeError))]

\* what reload makes of the outcome of its GET: the entity and the result
reload_response(this, o) ==
    IF o.t \in {"send_failed", "text_failed"}
    THEN [self |-> this, ret |-> Err(Anyhow(ReqwestError))]
    ELSE IF IsSome(DecodePrediction(o.body))
         THEN [self |-> Unwrap(DecodePrediction(o.body)), ret |-> Ok(Unit)]
         ELSE [self |-> this, ret |-> Err(Anyhow(SerdeError))]

\* reload up to its first await: api_key(), then the GET of the self url
ReloadStart ==
    /\ pc = "idle"
    /\ IsSome(self)
    /\ call' = [op |-> "reload", before |-> Unwrap(self)]
    /\ resps' = <<>>
    /\ key_cell' = api_key(env, key_cell).cell
    /\ IF api_key(env, key_cell).res.ok
       THEN /\ reqs' = << Request("GET", Unwrap(self).urls.get,
                                  {AuthHeader(api_key(env, key_cell).res.val)}, None) >>
            /\ pc' = "reload_get"
            /\ ret' = None
       ELSE /\ reqs' = <<>>
            /\ pc' = "idle"
            /\ ret' = Some(Err(Anyhow(api_key(env, key_cell).res.err)))
    /\ UNCHANGED <<streams, config, env, self>>

\* the answer to the GET arrives and reload returns
ReloadResp ==
    /\ pc = "reload_get"
    /\ \E o \in Outcomes(PredictionBodies \cup ErrorBodies \cup {TitleOnlyBody, TextBody}) :
         /\ resps' = Append(resps, o)
         /\ self' = Some(reload_response(Unwrap(self), o).self)
         /\ ret' = Some(reload_response(Unwrap(self), o).ret)
    /\ pc' = "idle"
    /\ UNCHANGED <<streams, config, env, key_cell, call, reqs>>

\* get_status fetching the record before it answers
GetStatus_fetch ==
    /\ pc = "idle"
    /\ IsSome(self)
    /\ call' = [op |-> "get_status", before |-> Unwrap(self)]
    /\ reqs' = << Request("GET", Unwrap(self).urls.get, {}, None) >>
    /\ resps' = <<>>
    /\ ret' = Some(Unwrap(self).status)
    /\ UNCHANGED <<streams, config, env, key_cell, self, pc>>

\* get_status: the cached status, no request
GetStatus ==
    /\ pc = "idle"
    /\ IsSome(self)
    /\ call' = [op |-> "get_status", before |-> Unwrap(self)]
    /\ reqs' = <<>>
    /\ resps' = <<>>
    /\ ret' = Some(Unwrap(self).status)
    /\ UNCHANGED <<streams, config, env, key_cell, self, pc>>

NoStreamUrl == Anyhow([kind |-> "anyhow!", msg |-> <<"prediction has no stream url available">>])

AcceptHeader == <<"Accept", "text/event-stream">>

\* get_stream up to its first await: the stream url, api_key(), then the GET
GetStreamStart ==
    /\ pc = "idle"
    /\ IsSome(self)
    /\ Len(streams) < MaxStreams
    /\ call' = [op |-> "get_stream", before |-> Unwrap(self)]
    /\ resps' = <<>>
    /\ IF IsSome(Unwrap(self).urls.stream)
       THEN /\ key_cell' = api_key(env, key_cell).cell
            /\ IF api_key(env, key_cell).res.ok
               THEN /\ reqs' = << Request("GET", Unwrap(Unwrap(self).urls.stream),
                                          {AuthHeader(api_key(env, key_cell).res.val),
                                           AcceptHeader}, None) >>
                    /\ pc' = "stream_get"
                    /\ ret' = None
               ELSE /\ reqs' = <<>>
                    /\ pc' = "idle"
                    /\ ret' = Some(Err(Anyhow(api_key(env, key_cell).res.err)))
       ELSE /\ key_cell' = key_cell
            /\ reqs' = <<>>
            /\ pc' = "idle"
            /\ ret' = Some(Err(NoStreamUrl))
    /\ UNCHANGED <<streams, config, env, self>>

\* the value get_stream returns: the handle of stream number n
EventStream(n) == [kind |-> "EventStream", conn |-> n]

\* a fresh event stream over the body of a response: the connection is open,
\* the server has sent nothing on it, nothing was yielded
NewStream ==
    [state |-> "open", sent |-> <<>>, seen |-> <<>>]

\* get_stream handing out the stream it opened first, when there is one
GetStreamResp_reuse ==
    /\ pc = "stream_get"
    /\ \E o \in {SendFailed} \cup { Response(st, TextBody) : st \in HttpStatuses } :
         /\ resps' = Append(resps, o)
         /\ IF o.t = "send_failed"
            THEN /\ ret' = Some(Err(Anyhow(ReqwestError)))
                 /\ streams' = streams
            ELSE IF streams # <<>>
                 THEN /\ ret' = Some(Ok(EventStream(1)))
                      /\ streams' = streams
                 ELSE /\ ret' = Some(Ok(EventStream(Len(streams) + 1)))
                      /\ streams' = Append(streams, NewStream)
    /\ pc' = "idle"
    /\ UNCHANGED <<config, env, key_cell, self, call, reqs>>

\* the head of the stream response arrives (any status) or the send fails
GetStreamResp ==
    /\ pc = "stream_get"
    /\ \E o \in {SendFailed} \cup { Response(st, TextBody) : st \in HttpStatuses } :
         /\ resps' = Append(resps, o)
         /\ IF o.t = "send_failed"
            THEN /\ ret' = Some(Err(Anyhow(ReqwestError)))
                 /\ streams' = streams
            ELSE /\ ret' = Some(Ok(EventStream(Len(streams) + 1)))
                 /\ streams' = Append(streams, NewStream)
    /\ pc' = "idle"
    /\ UNCHANGED <<config, env, key_cell, self, call, reqs>>

InitEntity ==
    /\ config \in { c \in Configs : c.api_key = None }
    /\ env \in {None} \cup { Some(k) : k \in EnvKeys }
    /\ key_cell = None
    /\ self \in { Some(p) : p \in Predictions }
    /\ pc = "idle"
    /\ call = NoCall
    /\ reqs = <<>>
    /\ resps = <<>>
    /\ ret = None
    /\ streams = <<>>

NextEntity ==
    \/ ReloadStart
    \/ ReloadResp
    \/ GetStatus
    \/ GetStreamStart
    \/ GetStreamResp
    \/ EnvChange

SpecEntity == InitEntity /\ [][NextEntity]_vars

----------------------------------------------------------------------------
(* Properties of the Prediction entity, checked under SpecEntity.          *)

ReloadSucceeded ==
    /\ call.op = "reload"
    /\ IsSome(ret)
    /\ Unwrap(ret).ok

\* the record the reload fetched, as the server reported it
Fetched == AsReported(resps[1].body.json)

\* C6: after a successful reload every field of the entity (id, model,
\* version, input, status, created_at, urls.cancel, urls.get, urls.stream,
\* output) equals the field of the freshly fetched record: the whole record
\* is replaced, nothing held before survives.
C6_ReloadReplaces ==
    ReloadSucceeded =>
        /\ Len(resps) = 1
        /\ resps[1].t = "response"
        /\ resps[1].body.kind = "prediction"
        /\ Unwrap(self).id = Fetched.id
        /\ Unwrap(self).model = Fetched.model
        /\ Unwrap(self).version = Fetched.version
        /\ Unwrap(self).input = Fetched.input
        /\ Unwrap(self).status = Fetched.status
        /\ Unwrap(self).created_at = Fetched.created_at
        /\ Unwrap(self).urls.cancel = Fetched.urls.cancel
        /\ Unwrap(self).urls.get = Fetched.urls.get
        /\ Unwrap(self).urls.stream = Fetched.urls.stream
        /\ Unwrap(self).output = Fetched.output

\* a reload has succeeded on an entity that held an output and a stream url,
\* and every field of the fetched record differs from the one held before
C6_Witness ==
    /\ ReloadSucceeded
    /\ call.before.id # Unwrap(self).id
    /\ call.before.model # Unwrap(self).model
    /\ call.before.version # Unwrap(self).version
    /\ call.before.input # Unwrap(self).input
    /\ call.before.status = "Succeeded" /\ Unwrap(self).status = "Starting"
    /\ call.before.created_at # Unwrap(self).created_at
    /\ call.before.urls.cancel # Unwrap(self).urls.cancel
    /\ call.before.urls.get # Unwrap(self).urls.get
    /\ IsSome(call.before.urls.stream) /\ Unwrap(self).urls.stream = None
    /\ IsSome(call.before.output) /\ Unwrap(self).output = None

GetStreamWithoutUrl ==
    /\ call.op = "get_stream"
    /\ IsSome(ret)
    /\ call.before.urls.stream = None

\* C7: when urls.stream is absent, get_stream fails with an error of the
\* InvalidRequest kind of the taxonomy and sends no request.
C7_InvalidRequest ==
    GetStreamWithoutUrl =>
        /\ ~Unwrap(ret).ok
        /\ Unwrap(ret).err.kind = "InvalidRequest"
        /\ reqs = <<>>

\* what the code does in that case: an untyped anyhow error, and no request
C7_FailsWithoutRequest ==
    GetStreamWithoutUrl =>
        /\ ~Unwrap(ret).ok
        /\ Unwrap(ret).err = NoStreamUrl
        /\ reqs = <<>>
        /\ resps = <<>>

\* get_stream has returned on an entity without a stream url
C7_Witness == GetStreamWithoutUrl /\ pc = "idle"

EntityCall == call.op \in {"reload", "get_status", "get_stream"}

GetStatusReturned == call.op = "get_status" /\ IsSome(ret)

\* the status of the record a successful reload has just fetched
FetchedStatus(r) == StatusNames[r.body.json.status]

\* C11: get_status sends no request and changes no field; it returns the
\* cached status. In any sequence of operations the status of the entity
\* changes only in the step in which a reload succeeds, and then to the
\* status of the fetched record.
C11_CachedStatus ==
    /\ [](GetStatusReturned =>
            /\ reqs = <<>>
            /\ resps = <<>>
            /\ self = <<call.before>>
            /\ ret = <<call.before.status>>)
    /\ [][(IsSome(self) /\ IsSome(self') /\ Unwrap(self').status # Unwrap(self).status) =>
            /\ pc = "reload_get"
            /\ pc' = "idle"
            /\ IsSome(ret')
            /\ Unwrap(ret').ok
            /\ Unwrap(self').status = FetchedStatus(resps'[1])]_vars

\* get_status has returned a cached status other than Starting
C11_Witness ==
    /\ GetStatusReturned
    /\ Unwrap(ret) = "Processing"
    /\ Unwrap(self).status = "Processing"

\* C12: the id of an entity is immutable: after any reload, get_status or
\* get_stream call, successful or failed, it is the id the entity had.
C12_IdImmutable ==
    EntityCall => Unwrap(self).id = call.before.id

\* C12, amended: get_status, get_stream and a failed reload leave the id as
\* it was; a successful reload sets it to the id of the fetched record.
C12_IdFollowsServer ==
    EntityCall =>
        IF ReloadSucceeded
        THEN Unwrap(self).id = resps[1].body.json.id
        ELSE Unwrap(self).id = call.before.id

\* a reload has succeeded with a record whose id is not the id held before
C12_Witness ==
    /\ ReloadSucceeded
    /\ Unwrap(self).id # call.before.id
    /\ Unwrap(self).id = resps[1].body.json.id

ReloadFailed ==
    /\ call.op = "reload"
    /\ IsSome(ret)
    /\ ~Unwrap(ret).ok

\* C19: a failed reload (missing credentials, transport failure, or a body
\* that does not decode as a Prediction, the error body of a non-2xx answer
\* included) leaves every field of the entity as it was before the call; the
\* entity is written only once the fetched body has decoded in full.
C19_FailedReloadKeeps ==
    /\ (call.op = "reload" /\ pc = "reload_get") => self = <<call.before>>
    /\ ReloadFailed =>
         /\ Unwrap(self).id = call.before.id
         /\ Unwrap(self).model = call.before.model
         /\ Unwrap(self).version = call.before.version
         /\ Unwrap(self).input = call.before.input
         /\ Unwrap(self).status = call.before.status
         /\ Unwrap(self).created_at = call.before.created_at
         /\ Unwrap(self).urls = call.before.urls
         /\ Unwrap(self).output = call.before.output

\* a reload has failed on a Prediction body that stops decoding at its status
C19_Witness ==
    /\ ReloadFailed
    /\ Len(resps) = 1
    /\ resps[1].t = "response"
    /\ resps[1].body.kind = "prediction"
    /\ resps[1].body.json.status = "queued"
    /\ resps[1].body.json.id # call.before.id

----------------------------------------------------------------------------
(* PredictionClient::get, list and cancel (predictions.rs).                *)

Ids == { <<"id", i>> : i \in Profiles }

Cursors == {JsonNull, <<"cursor", 1>>}

\* the predictions a page of the list endpoint is made of
PagePredictions ==
    { JsonPrediction(i, st, JsonNull, JsonNull) :
        i \in Profiles, st \in {"starting", "succeeded", "queued"} }

PageBody(next, previous, results) ==
    [kind |-> "page", next |-> next, previous |-> previous, results |-> results]

PageBodies ==
    { PageBody(n, p, r) : n \in Cursors, p \in Cursors,
                          r \in SeqsUpTo(PagePredictions, MaxResults) }

\* serde_json::from_str::<Predictions>(data).ok()
DecodePredictions(data) ==
    IF /\ data.kind = "page"
       /\ \A k \in DOMAIN data.results :
            IsSome(DecodePrediction(PredictionBody(data.results[k])))
    THEN Some([next |-> JsonOption(data.next), previous |-> JsonOption(data.previous),
               results |-> [k \in DOMAIN data.results |->
                              Unwrap(DecodePrediction(PredictionBody(data.results[k])))]])
    ELSE None

PredictionUrl(base_url, id) == <<base_url, "/predictions/", id>>
CancelUrl(base_url, id) == <<base_url, "/predictions/", id, "/cancel">>

\* what get and cancel make of the outcome of their request
prediction_response(o) ==
    IF o.t \in {"send_failed", "text_failed"}
    THEN Err(Anyhow(ReqwestError))
    ELSE IF IsSome(DecodePrediction(o.body))
         THEN Ok(Unwrap(DecodePrediction(o.body)))
         ELSE Err(Anyhow(SerdeError))

\* what list makes of the outcome of its request
list_response(o) ==
    IF o.t \in {"send_failed", "text_failed"}
    THEN Err(Anyhow(ReqwestError))
    ELSE IF IsSome(DecodePredictions(o.body))
         THEN Ok(Unwrap(DecodePredictions(o.body)))
         ELSE Err(Anyhow(SerdeError))

\* one call of get, list or cancel up to its await: the credentials check,
\* then the request
DirectoryStart(c, request) ==
    /\ pc = "idle"
    /\ call' = c
    /\ resps' = <<>>
    /\ IF get_api_key(config).ok
       THEN /\ reqs' = <<request>>
            /\ pc' = c.op
            /\ ret' = None
       ELSE /\ reqs' = <<>>
            /\ pc' = "idle"
            /\ ret' = Some(Err(Anyhow(get_api_key(config).err)))
    /\ UNCHANGED <<streams, config, env, key_cell, self>>

GetStart ==
    \E id \in Ids :
        DirectoryStart([op |-> "get", id |-> id],
                       Request("GET", PredictionUrl(get_base_url(config), id),
                               {AuthHeader(get_api_key(config).val)}, None))

GetResp ==
    /\ pc = "get"
    /\ \E o \in Outcomes(PredictionBodies \cup ErrorBodies \cup {TitleOnlyBody, TextBody}) :
         /\ resps' = Append(resps, o)
         /\ ret' = Some(prediction_response(o))
    /\ pc' = "idle"
    /\ UNCHANGED <<streams, config, env, key_cell, self, call, reqs>>

ListStart ==
    DirectoryStart([op |-> "list"],
                   Request("GET", PredictionsUrl(get_base_url(config)),
                           {AuthHeader(get_api_key(config).val)}, None))

\* list following a `next` cursor with a second request
ListResp_follow ==
    /\ pc = "list"
    /\ \E o \in Outcomes(PageBodies \cup ErrorBodies \cup {TitleOnlyBody, TextBody}) :
         /\ resps' = Append(resps, o)
         /\ IF list_response(o).ok /\ IsSome(list_response(o).val.next) /\ Len(reqs) < 2
            THEN /\ reqs' = Append(reqs,
                        Request("GET", Unwrap(list_response(o).val.next),
                                {AuthHeader(get_api_key(config).val)}, None))
                 /\ ret' = None
                 /\ pc' = "list"
            ELSE /\ reqs' = reqs
                 /\ ret' = Some(list_response(o))
                 /\ pc' = "idle"
    /\ UNCHANGED <<streams, config, env, key_cell, self, call>>

ListResp ==
    /\ pc = "list"
    /\ \E o \in Outcomes(PageBodies \cup ErrorBodies \cup {TitleOnlyBody, TextBody}) :
         /\ resps' = Append(resps, o)
         /\ ret' = Some(list_response(o))
    /\ pc' = "idle"
    /\ UNCHANGED <<streams, config, env, key_cell, self, call, reqs>>

CancelStart ==
    \E id \in Ids :
        DirectoryStart([op |-> "cancel", id |-> id],
                       Request("POST", CancelUrl(get_base_url(config), id),
                               {AuthHeader(get_api_key(config).val)}, None))

\* cancel fetching the record again after the cancel request
CancelResp_reload ==
    /\ pc = "cancel"
    /\ \E o \in Outcomes(PredictionBodies \cup ErrorBodies \cup {TitleOnlyBody, TextBody}) :
         /\ resps' = Append(resps, o)
         /\ ret' = Some(prediction_response(o))
         /\ reqs' = IF prediction_response(o).ok
                    THEN Append(reqs, Request("GET", prediction_response(o).val.urls.get,
                                              {AuthHeader(get_api_key(config).val)}, None))
                    ELSE reqs
    /\ pc' = "idle"
    /\ UNCHANGED <<streams, config, env, key_cell, self, call>>

CancelResp ==
    /\ pc = "cancel"
    /\ \E o \in Outcomes(PredictionBodies \cup ErrorBodies \cup {TitleOnlyBody, TextBody}) :
         /\ resps' = Append(resps, o)
         /\ ret' = Some(prediction_response(o))
    /\ pc' = "idle"
    /\ UNCHANGED <<streams, config, env, key_cell, self, call, reqs>>

InitDirectory == InitCreate

NextDirectory ==
    \/ GetStart
    \/ GetResp
    \/ ListStart
    \/ ListResp
    \/ CancelStart
    \/ CancelResp

SpecDirectory == InitDirectory /\ [][NextDirectory]_vars

----------------------------------------------------------------------------
(* Properties of get, list and cancel, checked under SpecDirectory.        *)

DirectoryAnswered ==
    /\ call.op \in {"get", "list", "cancel"}
    /\ IsSome(ret)
    /\ Len(resps) = 1

\* C8: get, list and cancel map errors as create does: a non-2xx answer makes
\* the operation fail with the taxonomy kind of its status (401
\* InvalidCredentials, 402 PaymentNeeded, any other Misc), and a transport
\* failure gives ClientError.
C8_SharedErrorMapping ==
    DirectoryAnswered =>
        /\ (resps[1].t = "response" /\ resps[1].status \notin 200 .. 299) =>
             /\ ~Unwrap(ret).ok
             /\ Unwrap(ret).err.kind = TaxonomyKind(resps[1].status)
        /\ resps[1].t = "send_failed" =>
             /\ ~Unwrap(ret).ok
             /\ Unwrap(ret).err.kind = "ClientError"


HasCredentials == IsSome(config.api_key)

\* C9: cancel(id) sends exactly one request, a POST to
\* {base}/predictions/{id}/cancel, and returns the Prediction record of that
\* same response; it sends no further request.
C9_CancelOneRequest ==
    call.op = "cancel" =>
        /\ Len(reqs) <= 1
        /\ HasCredentials =>
             /\ Len(reqs) = 1
             /\ reqs[1].method = "POST"
             /\ reqs[1].url = <<BaseUrl, "/predictions/", call.id, "/cancel">>
        /\ (IsSome(ret) /\ Unwrap(ret).ok) =>
             /\ Len(reqs) = 1
             /\ Len(resps) = 1
             /\ resps[1].t = "response"
             /\ resps[1].body.kind = "prediction"
             /\ Unwrap(ret).val = AsReported(resps[1].body.json)
             /\ Unwrap(ret).val.id = resps[1].body.json.id

\* cancel of one id has returned the record the server reported, under the
\* id the server gave it
C9_Witness ==
    /\ call.op = "cancel"
    /\ IsSome(ret)
    /\ Unwrap(ret).ok
    /\ call.id = <<"id", 1>>
    /\ Unwrap(ret).val.id = <<"id", 1>>
    /\ Unwrap(ret).val.status = "Starting"
    /\ Len(reqs) = 1

\* the page a JSON body reports
PageReported(body) ==
    [next |-> Reported(body.next), previous |-> Reported(body.previous),
     results |-> [k \in DOMAIN body.results |-> AsReported(body.results[k])]]

\* C10: list() sends exactly one GET to {base}/predictions whatever `next` is,
\* and returns the records of that page in response order with the `next` and
\* `previous` tokens unchanged (absent when null); `next` is never followed.
C10_ListSinglePage ==
    call.op = "list" =>
        /\ Len(reqs) <= 1
        /\ HasCredentials =>
             /\ Len(reqs) = 1
             /\ reqs[1].method = "GET"
             /\ reqs[1].url = <<BaseUrl, "/predictions">>
        /\ (IsSome(ret) /\ Unwrap(ret).ok) =>
             /\ Len(resps) = 1
             /\ resps[1].t = "response"
             /\ resps[1].body.kind = "page"
             /\ Unwrap(ret).val = PageReported(resps[1].body)
             /\ Len(Unwrap(ret).val.results) = Len(resps[1].body.results)
             /\ (Unwrap(ret).val.next = <<>>) <=> (resps[1].body.next = <<"null", 0>>)

\* list has returned a page of two different records and a `next` token
C10_Witness ==
    /\ call.op = "list"
    /\ IsSome(ret)
    /\ Unwrap(ret).ok
    /\ Len(Unwrap(ret).val.results) = 2
    /\ Unwrap(ret).val.results[1] # Unwrap(ret).val.results[2]
    /\ Unwrap(ret).val.next = << <<"cursor", 1>> >>
    /\ Unwrap(ret).val.previous = <<>>
    /\ Len(reqs) = 1

----------------------------------------------------------------------------
(* The other operations of ModelClient (models.rs).                        *)

\* the JSON object of one model
JsonModel(i, paper_url) ==
    [url |-> <<"url", i>>, owner |-> <<"owner", i>>, name |-> <<"name", i>>,
     description |-> <<"description", i>>, visibility |-> "public",
     github_url |-> <<"github_url", i>>, paper_url |-> paper_url,
     license_url |-> JsonNull, run_count |-> i,
     cover_image_url |-> <<"cover_image_url", i>>, default_example |-> JsonNull,
     latest_version |-> JsonVersion(i)]

JsonModels ==
    { JsonModel(i, pu) : i \in Profiles, pu \in {JsonNull, <<"paper_url", 1>>} }

ModelBody(json) == [kind |-> "model", json |-> json]
ModelBodies == { ModelBody(j) : j \in JsonModels }

ModelsBody(results) ==
    [kind |-> "models", next |-> JsonNull, previous |-> JsonNull, results |-> results]
ModelsBodies == { ModelsBody(r) : r \in SeqsUpTo(JsonModels, 1) }

\* the Model a JSON object decodes to
ModelOf(json) ==
    [json EXCEPT !.paper_url = JsonOption(@), !.license_url = JsonOption(@)]

\* serde_json::from_str::<Model>(data).ok()
DecodeModel(data) ==
    IF data.kind = "model" THEN Some(ModelOf(data.json)) ELSE None

\* serde_json::from_str::<Models>(data).ok()
DecodeModels(data) ==
    IF data.kind = "models"
    THEN Some([next |-> JsonOption(data.next), previous |-> JsonOption(data.previous),
               results |-> [k \in DOMAIN data.results |-> ModelOf(data.results[k])]])
    ELSE None

VersionIds == { <<"version", i>> : i \in Profiles }

ModelUrl(base_url, owner, name) == <<base_url, "/models/", owner, "/", name>>
VersionUrl(base_url, owner, name, version_id) ==
    <<base_url, "/models/", owner, "/", name, "/versions/", version_id>>
ModelsUrl(base_url) == <<base_url, "/models">>

\* what ModelClient::get makes of the outcome of its request
model_response(o) ==
    IF o.t \in {"send_failed", "text_failed"}
    THEN Err(Anyhow(ReqwestError))
    ELSE IF IsSome(DecodeModel(o.body))
         THEN Ok(Unwrap(DecodeModel(o.body)))
         ELSE Err(Anyhow(SerdeError))

\* what get_specific_version makes of the outcome of its request
get_specific_version(o) ==
    IF o.t \in {"send_failed", "text_failed"}
    THEN Err(ReplicateError("ClientError", to_string(ReqwestError)))
    ELSE IF IsSome(DecodeModel(o.body))
         THEN Ok(Unwrap(DecodeModel(o.body)))
         ELSE Err(ReplicateError("SerializationError", to_string(SerdeError)))

\* what delete_version makes of the outcome of its request
delete_version(o) ==
    IF o.t = "send_failed"
    THEN Err(ReplicateError("ClientError", to_string(ReqwestError)))
    ELSE IF o.status \in 200 .. 299
         THEN Ok(Unit)
         ELSE Err(ReplicateError("Misc", <<"delete request failed">>))

\* what get_models makes of the outcome of its request
get_models(o) ==
    IF o.t \in {"send_failed", "text_failed"}
    THEN Err(ReplicateError("ClientError", to_string(ReqwestError)))
    ELSE IF IsSome(DecodeModels(o.body))
         THEN Ok(Unwrap(DecodeModels(o.body)))
         ELSE Err(ReplicateError("SerializationError", to_string(SerdeError)))

\* one call of a ModelClient operation up to its await: the credentials
\* check, then the request; `boxed` for the operations returning anyhow::Result
ModelStart(c, request, boxed) ==
    /\ pc = "idle"
    /\ call' = c
    /\ resps' = <<>>
    /\ IF get_api_key(config).ok
       THEN /\ reqs' = <<request>>
            /\ pc' = c.op
            /\ ret' = None
       ELSE /\ reqs' = <<>>
            /\ pc' = "idle"
            /\ ret' = Some(Err(IF boxed THEN Anyhow(get_api_key(config).err)
                                        ELSE get_api_key(config).err))
    /\ UNCHANGED <<streams, config, env, key_cell, self>>

\* a ModelClient operation returns: `answers` pairs each outcome of the
\* request with what the operation makes of it
ModelResp(answers) ==
    /\ \E a \in answers :
         /\ resps' = Append(resps, a[1])
         /\ ret' = Some(a[2])
    /\ pc' = "idle"
    /\ UNCHANGED <<streams, config, env, key_cell, self, call, reqs>>

ModelGetStart ==
    \E m \in Models :
        ModelStart([op |-> "model_get", owner |-> m.owner, name |-> m.name],
                   Request("GET", ModelUrl(get_base_url(config), m.owner, m.name),
                           {AuthHeader(get_api_key(config).val)}, None),
                   TRUE)

ModelGetResp ==
    /\ pc = "model_get"
    /\ ModelResp({ <<o, model_response(o)>> :
                   o \in Outcomes(ModelBodies \cup ErrorBodies \cup {TextBody}) })

GetSpecificVersionStart ==
    \E m \in Models, v \in VersionIds :
        ModelStart([op |-> "get_specific_version", owner |-> m.owner, name |-> m.name,
                    version_id |-> v],
                   Request("GET", VersionUrl(get_base_url(config), m.owner, m.name, v),
                           {AuthHeader(get_api_key(config).val)}, None),
                   FALSE)

GetSpecificVersionResp ==
    /\ pc = "get_specific_version"
    /\ ModelResp({ <<o, get_specific_version(o)>> :
                   o \in Outcomes(ModelBodies \cup ErrorBodies \cup {TextBody}) })

DeleteVersionStart ==
    \E m \in Models, v \in VersionIds :
        ModelStart([op |-> "delete_version", owner |-> m.owner, name |-> m.name,
                    version_id |-> v],
                   Request("DELETE", VersionUrl(get_base_url(config), m.owner, m.name, v),
                           {AuthHeader(get_api_key(config).val)}, None),
                   FALSE)

DeleteVersionResp ==
    /\ pc = "delete_version"
    /\ ModelResp({ <<o, delete_version(o)>> :
                   o \in {SendFailed} \cup { Response(st, TextBody) : st \in HttpStatuses } })

ListVersionsStart ==
    \E m \in Models :
        ModelStart([op |-> "list_versions", owner |-> m.owner, name |-> m.name],
                   Request("GET", VersionsUrl(get_base_url(config), m.owner, m.name),
                           {AuthHeader(get_api_key(config).val)}, None),
                   FALSE)

ListVersionsResp ==
    /\ pc = "list_versions"
    /\ ModelResp({ <<o, list_versions(o)>> :
                   o \in Outcomes(VersionsBodies \cup ErrorBodies \cup {TextBody}) })

\* get_latest_version(owner, name) of its list_versions call
latest_version_response(o) == get_latest_version(list_versions(o))

GetLatestVersionStart ==
    \E m \in Models :
        ModelStart([op |-> "get_latest_version", owner |-> m.owner, name |-> m.name],
                   Request("GET", VersionsUrl(get_base_url(config), m.owner, m.name),
                           {AuthHeader(get_api_key(config).val)}, None),
                   FALSE)

GetLatestVersionResp ==
    /\ pc = "get_latest_version"
    /\ ModelResp({ <<o, latest_version_response(o)>> :
                   o \in Outcomes(VersionsBodies \cup ErrorBodies \cup {TextBody}) })

GetModelsStart ==
    ModelStart([op |-> "get_models"],
               Request("GET", ModelsUrl(get_base_url(config)),
                       {AuthHeader(get_api_key(config).val)}, None),
               FALSE)

GetModelsResp ==
    /\ pc = "get_models"
    /\ ModelResp({ <<o, get_models(o)>> :
                   o \in Outcomes(ModelsBodies \cup ErrorBodies \cup {TextBody}) })

----------------------------------------------------------------------------
(* The whole library: a caller uses the two clients, keeps a Prediction    *)
(* one of them returned, and then works on that entity.                    *)

\* `let mut prediction = client.create(..).await?`: the caller keeps the
\* Prediction that create, get or cancel returned
Bind ==
    /\ pc = "idle"
    /\ self = None
    /\ call.op \in {"create", "get", "cancel"}
    /\ IsSome(ret)
    /\ Unwrap(ret).ok
    /\ self' = Some(Unwrap(ret).val)
    /\ call' = NoCall
    /\ reqs' = <<>>
    /\ resps' = <<>>
    /\ ret' = None
    /\ UNCHANGED <<streams, config, env, key_cell, pc>>

Init ==
    /\ config \in Configs
    /\ env \in {None} \cup { Some(k) : k \in EnvKeys }
    /\ key_cell = None
    /\ self = None
    /\ pc = "idle"
    /\ call = NoCall
    /\ reqs = <<>>
    /\ resps = <<>>
    /\ ret = None
    /\ streams = <<>>

\* the operations of the two clients are called while the caller holds no
\* entity, those of the entity once it holds one
Next ==
    \/ self = None /\ CreateStart
    \/ self = None /\ GetStart
    \/ self = None /\ ListStart
    \/ self = None /\ CancelStart
    \/ self = None /\ ModelGetStart
    \/ self = None /\ GetSpecificVersionStart
    \/ self = None /\ DeleteVersionStart
    \/ self = None /\ ListVersionsStart
    \/ self = None /\ GetLatestVersionStart
    \/ self = None /\ GetModelsStart
    \/ CreateVersionsResp
    \/ CreateResp
    \/ GetResp
    \/ ListResp
    \/ CancelResp
    \/ ModelGetResp
    \/ GetSpecificVersionResp
    \/ DeleteVersionResp
    \/ ListVersionsResp
    \/ GetLatestVersionResp
    \/ GetModelsResp
    \/ Bind
    \/ ReloadStart
    \/ ReloadResp
    \/ GetStatus
    \/ GetStreamStart
    \/ GetStreamResp

Spec == Init /\ [][Next]_vars

----------------------------------------------------------------------------
(* Properties of the library as a whole, checked under Spec.               *)

\* the operations of the entity, which resolve the key with api_key()
EntityOps == {"reload", "get_status", "get_stream"}

\* the key the operation in progress resolved: the process-wide one for the
\* entity, the one of the config for the clients
ResolvedKey ==
    IF call.op \in EntityOps THEN Unwrap(key_cell) ELSE Unwrap(config.api_key)

\* C14: every network request issued by any operation (both round trips of
\* create, get, list, cancel, reload, get_stream and the model and version
\* operations) carries the header `Authorization: Token <key>` with the
\* resolved API key; the get_stream request carries `Accept:
\* text/event-stream` as well.
C14_Authorized ==
    \A i \in 1 .. Len(reqs) :
        /\ <<"Authorization", <<"Token ", ResolvedKey>>>> \in reqs[i].headers
        /\ call.op = "get_stream" => <<"Accept", "text/event-stream">> \in reqs[i].headers

\* an entity that create returned has issued the request of get_stream
C14_Witness ==
    /\ call.op = "get_stream"
    /\ Len(reqs) = 1
    /\ reqs[1].url = Unwrap(call.before.urls.stream)
    /\ Cardinality(reqs[1].headers) = 2

\* the error inside an anyhow::Error, or the error itself
Boxed(e) == IF e.kind = "anyhow::Error" THEN e.source ELSE e

\* C20: when the ReplicateConfig holds no API key (ReplicateConfig::default()),
\* create, get, list and cancel each fail with MissingCredentials before any
\* network request is issued: create sends neither the resolver request nor
\* the POST.
C20_MissingCredentials ==
    (config.api_key = <<>> /\ call.op \in {"create", "get", "list", "cancel"}) =>
        /\ reqs = <<>>
        /\ resps = <<>>
        /\ pc = "idle"
        /\ ret # <<>>
        /\ ~Unwrap(ret).ok
        /\ Boxed(Unwrap(ret).err).kind = "MissingCredentials"
        /\ call.op = "create" => Unwrap(ret).err.kind = "MissingCredentials"

\* create has failed on a config without a key
C20_Witness ==
    /\ config.api_key = <<>>
    /\ call.op = "create"
    /\ ret # <<>>
    /\ ~Unwrap(ret).ok

----------------------------------------------------------------------------
(* Two Prediction entities in one process, each with its own calls in      *)
(* flight. Under SpecPair the variables self, pc, call, reqs, resps and    *)
(* ret hold one value per entity; env, key_cell and streams belong to the  *)
(* process.                                                                *)

Entities == {"a", "b"}

\* the records the service reports to the pair: every id, running or done,
\* with a stream url
PairBodies ==
    { PredictionBody(JsonPrediction(i, st, <<"stream", i>>, JsonNull)) :
        i \in Profiles, st \in {"starting", "succeeded"} }

PairOutcomes == {SendFailed} \cup { Response(200, b) : b \in PairBodies \cup {TextBody} }

PairReloadStart(e) ==
    /\ pc[e] = "idle"
    /\ call' = [call EXCEPT ![e] = [op |-> "reload"]]
    /\ resps' = [resps EXCEPT ![e] = <<>>]
    /\ key_cell' = api_key(env, key_cell).cell
    /\ IF api_key(env, key_cell).res.ok
       THEN /\ reqs' = [reqs EXCEPT ![e] =
                           << Request("GET", Unwrap(self[e]).urls.get,
                                      {AuthHeader(api_key(env, key_cell).res.val)}, None) >>]
            /\ pc' = [pc EXCEPT ![e] = "reload_get"]
            /\ ret' = [ret EXCEPT ![e] = None]
       ELSE /\ reqs' = [reqs EXCEPT ![e] = <<>>]
            /\ pc' = pc
            /\ ret' = [ret EXCEPT ![e] = Some(Err(Anyhow(api_key(env, key_cell).res.err)))]
    /\ UNCHANGED <<streams, config, env, self>>

\* reload storing the fetched record in every entity of the process
PairReloadResp_shared(e) ==
    /\ pc[e] = "reload_get"
    /\ \E o \in PairOutcomes :
         /\ resps' = [resps EXCEPT ![e] = Append(@, o)]
         /\ self' = [f \in Entities |-> Some(reload_response(Unwrap(self[e]), o).self)]
         /\ ret' = [ret EXCEPT ![e] = Some(reload_response(Unwrap(self[e]), o).ret)]
    /\ pc' = [pc EXCEPT ![e] = "idle"]
    /\ UNCHANGED <<streams, config, env, key_cell, call, reqs>>

PairReloadResp(e) ==
    /\ pc[e] = "reload_get"
    /\ \E o \in PairOutcomes :
         /\ resps' = [resps EXCEPT ![e] = Append(@, o)]
         /\ self' = [self EXCEPT ![e] = Some(reload_response(Unwrap(self[e]), o).self)]
         /\ ret' = [ret EXCEPT ![e] = Some(reload_response(Unwrap(self[e]), o).ret)]
    /\ pc' = [pc EXCEPT ![e] = "idle"]
    /\ UNCHANGED <<streams, config, env, key_cell, call, reqs>>

PairGetStatus(e) ==
    /\ pc[e] = "idle"
    /\ call' = [call EXCEPT ![e] = [op |-> "get_status"]]
    /\ reqs' = [reqs EXCEPT ![e] = <<>>]
    /\ resps' = [resps EXCEPT ![e] = <<>>]
    /\ ret' = [ret EXCEPT ![e] = Some(Unwrap(self[e]).status)]
    /\ UNCHANGED <<streams, config, env, key_cell, self, pc>>

PairGetStreamStart(e) ==
    /\ pc[e] = "idle"
    /\ Len(streams) + Cardinality({ f \in Entities : pc[f] = "stream_get" }) < MaxStreams
    /\ call' = [call EXCEPT ![e] = [op |-> "get_stream"]]
    /\ resps' = [resps EXCEPT ![e] = <<>>]
    /\ IF IsSome(Unwrap(self[e]).urls.stream)
       THEN /\ key_cell' = api_key(env, key_cell).cell
            /\ IF api_key(env, key_cell).res.ok
               THEN /\ reqs' = [reqs EXCEPT ![e] =
                                   << Request("GET", Unwrap(Unwrap(self[e]).urls.stream),
                                              {AuthHeader(api_key(env, key_cell).res.val),
                                               AcceptHeader}, None) >>]
                    /\ pc' = [pc EXCEPT ![e] = "stream_get"]
                    /\ ret' = [ret EXCEPT ![e] = None]
               ELSE /\ reqs' = [reqs EXCEPT ![e] = <<>>]
                    /\ pc' = pc
                    /\ ret' = [ret EXCEPT ![e] =
                                  Some(Err(Anyhow(api_key(env, key_cell).res.err)))]
       ELSE /\ key_cell' = key_cell
            /\ reqs' = [reqs EXCEPT ![e] = <<>>]
            /\ pc' = pc
            /\ ret' = [ret EXCEPT ![e] = Some(Err(NoStreamUrl))]
    /\ UNCHANGED <<streams, config, env, self>>

PairGetStreamResp(e) ==
    /\ pc[e] = "stream_get"
    /\ \E o \in {SendFailed, Response(200, TextBody)} :
         /\ resps' = [resps EXCEPT ![e] = Append(@, o)]
         /\ IF o.t = "send_failed"
            THEN /\ ret' = [ret EXCEPT ![e] = Some(Err(Anyhow(ReqwestError)))]
                 /\ streams' = streams
            ELSE /\ ret' = [ret EXCEPT ![e] = Some(Ok(EventStream(Len(streams) + 1)))]
                 /\ streams' = Append(streams, NewStream)
    /\ pc' = [pc EXCEPT ![e] = "idle"]
    /\ UNCHANGED <<config, env, key_cell, self, call, reqs>>

InitPair ==
    /\ config \in { c \in Configs : c.api_key = None }
    /\ env \in {None, Some("key-1")}
    /\ key_cell = None
    /\ self \in [Entities -> { DecodePrediction(b) : b \in PairBodies }]
    /\ pc = [e \in Entities |-> "idle"]
    /\ call = [e \in Entities |-> NoCall]
    /\ reqs = [e \in Entities |-> <<>>]
    /\ resps = [e \in Entities |-> <<>>]
    /\ ret = [e \in Entities |-> None]
    /\ streams = <<>>

NextPair ==
    \E e \in Entities :
        \/ PairReloadStart(e)
        \/ PairReloadResp(e)
        \/ PairGetStatus(e)
        \/ PairGetStreamStart(e)
        \/ PairGetStreamResp(e)

SpecPair == InitPair /\ [][NextPair]_vars

\* a step of an operation on entity e: its call, its position, its log or its
\* return value moves
StepOf(e) ==
    \/ call'[e] # call[e]
    \/ pc'[e] # pc[e]
    \/ reqs'[e] # reqs[e]
    \/ resps'[e] # resps[e]
    \/ ret'[e] # ret[e]

\* C18: Prediction entities are independent: for two distinct entities and
\* any interleaving of reload, get_status and get_stream calls on them, a
\* step of an operation on one entity leaves every field of the other entity
\* unchanged.
C18_Independent ==
    [][\A e \in Entities : \A f \in Entities \ {e} :
          StepOf(e) =>
              /\ Unwrap(self'[f]).id = Unwrap(self[f]).id
              /\ Unwrap(self'[f]).model = Unwrap(self[f]).model
              /\ Unwrap(self'[f]).version = Unwrap(self[f]).version
              /\ Unwrap(self'[f]).input = Unwrap(self[f]).input
              /\ Unwrap(self'[f]).status = Unwrap(self[f]).status
              /\ Unwrap(self'[f]).created_at = Unwrap(self[f]).created_at
              /\ Unwrap(self'[f]).urls = Unwrap(self[f]).urls
              /\ Unwrap(self'[f]).output = Unwrap(self[f]).output]_vars

\* a reload of one entity has replaced its record while a reload of the other
\* is in flight
C18_Witness ==
    /\ call["a"].op = "reload"
    /\ ret["a"] = <<[ok |-> TRUE, val |-> Unit]>>
    /\ pc["b"] = "reload_get"
    /\ Unwrap(self["a"]).id # Unwrap(self["b"]).id
    /\ Unwrap(self["a"]).urls.get # reqs["a"][1].url

----------------------------------------------------------------------------
(* Event streams in use: the service sends events on the open connections  *)
(* and the caller pulls them from the handles get_stream returned.         *)

\* the k-th event of the prediction's output, which the service sends from
\* the start on every stream connection
StreamEvent(k) == [event |-> "output", data |-> <<"chunk", k>>, id |-> <<"event", k>>]

\* the service sends the next event on connection n
ServerSend(n) ==
    /\ n \in DOMAIN streams
    /\ streams[n].state = "open"
    /\ Len(streams[n].sent) < MaxEvents
    /\ streams' = [streams EXCEPT
                      ![n].sent = Append(@, StreamEvent(Len(@) + 1))]
    /\ UNCHANGED <<config, env, key_cell, self, pc, call, reqs, resps, ret>>

\* the service closes connection n
ServerClose(n) ==
    /\ n \in DOMAIN streams
    /\ streams[n].state = "open"
    /\ streams' = [streams EXCEPT ![n].state = "closed"]
    /\ UNCHANGED <<config, env, key_cell, self, pc, call, reqs, resps, ret>>

\* `stream.next().await` on handle n yields the next event that arrived
StreamNext(n) ==
    /\ n \in DOMAIN streams
    /\ Len(streams[n].seen) < Len(streams[n].sent)
    /\ streams' = [streams EXCEPT
                      ![n].seen = Append(@, streams[n].sent[Len(@) + 1])]
    /\ UNCHANGED <<config, env, key_cell, self, pc, call, reqs, resps, ret>>

\* the entities of the stream runs: one created with stream = true, one without
StreamPredictions ==
    { Unwrap(DecodePrediction(PredictionBody(JsonPrediction(1, "processing", strm, JsonNull)))) :
        strm \in {JsonNull, <<"stream", 1>>} }

InitStream ==
    /\ config \in { c \in Configs : c.api_key = None }
    /\ env \in {None, Some("key-1")}
    /\ key_cell = None
    /\ self \in { Some(p) : p \in StreamPredictions }
    /\ pc = "idle"
    /\ call = NoCall
    /\ reqs = <<>>
    /\ resps = <<>>
    /\ ret = None
    /\ streams = <<>>

NextStream ==
    \/ GetStreamStart
    \/ GetStreamResp
    \/ \E n \in 1 .. MaxStreams : ServerSend(n)
    \/ \E n \in 1 .. MaxStreams : ServerClose(n)
    \/ \E n \in 1 .. MaxStreams : StreamNext(n)

SpecStream == InitStream /\ [][NextStream]_vars

\* get_stream returns a stream in this step
StreamReturned ==
    /\ pc = "stream_get"
    /\ pc' = "idle"
    /\ ret' # <<>>
    /\ Unwrap(ret').ok

\* C16: each successful call of get_stream on an entity with a stream url
\* opens exactly one new GET connection to urls.stream, independent of any
\* earlier connection or stream; within one handle the events only move
\* forward, an event yielded once is never yielded again by that handle, and
\* the caller sees an event again only on the handle of a later get_stream.
C16_FreshForwardOnly ==
    /\ [][/\ StreamReturned =>
               /\ call.before.urls.stream # <<>>
               /\ Len(reqs') = 1
               /\ reqs'[1].method = "GET"
               /\ reqs'[1].url = Unwrap(call.before.urls.stream)
               /\ Len(streams') = Len(streams) + 1
               /\ Unwrap(ret').val.conn = Len(streams')
               /\ streams'[Len(streams')].sent = <<>>
               /\ streams'[Len(streams')].seen = <<>>
               /\ \A n \in DOMAIN streams : streams'[n] = streams[n]
          /\ Len(streams') # Len(streams) => StreamReturned
          /\ reqs' # reqs => pc = "idle" /\ streams' = streams
          /\ \A n \in DOMAIN streams :
               /\ Len(streams'[n].seen) >= Len(streams[n].seen)
               /\ \A i \in DOMAIN streams[n].seen :
                    streams'[n].seen[i] = streams[n].seen[i]]_vars
    /\ [](\A n \in DOMAIN streams :
            \A i \in DOMAIN streams[n].seen : \A j \in DOMAIN streams[n].seen :
                i # j => streams[n].seen[i] # streams[n].seen[j])

\* a second get_stream has opened a second connection, and its handle has
\* yielded again the event the first handle yielded
C16_Witness ==
    /\ Len(streams) >= 2
    /\ streams[1].seen # <<>>
    /\ streams[2].seen # <<>>
    /\ streams[2].seen[1] = streams[1].seen[1]
    /\ call.op = "get_stream"
    /\ Len(reqs) = 1

----------------------------------------------------------------------------
(* impl fmt::Display for ReplicateError (errors.rs), checked under         *)
(* SpecDisplay: an error value is drawn and formatted.                     *)

ErrorKinds ==
    {"MissingCredentials", "InvalidCredentials", "PaymentNeeded", "SerializationError",
     "ClientError", "InvalidRequest", "Misc"}

\* the messages the library puts in an error value
ErrorMessages ==
    {GenericMessage, NoVersionsMessage, <<"delete request failed">>,
     to_string(SerdeError), to_string(ReqwestError), MissingEnvKey.msg,
     <<"REPLICATE_API_KEY not provided in environment variable">>}
        \cup { FormatTitleDetail(b) : b \in ErrorBodies }

ErrorValues == { ReplicateError(k, m) : k \in ErrorKinds, m \in ErrorMessages }

\* Display::fmt: what `{}` writes for an error value
fmt(e) ==
    IF e.kind \in {"MissingCredentials", "PaymentNeeded", "ClientError", "Misc",
                   "SerializationError"}
    THEN e.msg
    ELSE <<"unknown replicate error">>

InitDisplay ==
    /\ config \in Configs
    /\ env = None
    /\ key_cell = None
    /\ self = None
    /\ pc = "idle"
    /\ \E e \in ErrorValues : call = [op |-> "fmt", error |-> e]
    /\ reqs = <<>>
    /\ resps = <<>>
    /\ ret = None
    /\ streams = <<>>

\* format!("{}", error)
Format ==
    /\ call.op = "fmt"
    /\ ret = None
    /\ ret' = Some(fmt(call.error))
    /\ UNCHANGED <<streams, config, env, key_cell, self, pc, call, reqs, resps>>

NextDisplay == Format

SpecDisplay == InitDisplay /\ [][NextDisplay]_vars

\* C21: for every error kind of the taxonomy (MissingCredentials,
\* InvalidCredentials, PaymentNeeded, SerializationError, ClientError,
\* InvalidRequest, Misc) the formatted string of an error value is the
\* message the value carries.
C21_DisplayIsMessage ==
    (call.op = "fmt" /\ ret # <<>>) => Unwrap(ret) = call.error.msg

----------------------------------------------------------------------------
(* api_key() called from several threads while the environment changes.    *)
(* Under SpecKey pc, call and ret hold one value per thread, and resps is   *)
(* the record of the calls that returned, in the order they returned.       *)

Threads == {"t1", "t2"}

\* one returned call: what var() found in the environment, and the result
KeyCall(found, res) == [var |-> found, res |-> res]

\* api_key() up to the OnceLock: var() reads the environment, and `?` returns
\* its failure
KeyRead(t) ==
    /\ pc[t] = "idle"
    /\ Len(resps) + Cardinality({ u \in Threads : pc[u] = "init" }) < MaxCalls
    /\ call' = [call EXCEPT ![t] = [op |-> "api_key", var |-> env]]
    /\ IF var(env).ok
       THEN /\ pc' = [pc EXCEPT ![t] = "init"]
            /\ ret' = [ret EXCEPT ![t] = None]
            /\ resps' = resps
       ELSE /\ pc' = pc
            /\ ret' = [ret EXCEPT ![t] = Some(api_key(env, key_cell).res)]
            /\ resps' = Append(resps, KeyCall(env, api_key(env, key_cell).res))
    /\ UNCHANGED <<streams, config, env, key_cell, self, reqs>>

\* get_or_init with the value read, and the return
KeyInit(t) ==
    /\ pc[t] = "init"
    /\ key_cell' = api_key(call[t].var, key_cell).cell
    /\ ret' = [ret EXCEPT ![t] = Some(api_key(call[t].var, key_cell).res)]
    /\ resps' = Append(resps, KeyCall(call[t].var, api_key(call[t].var, key_cell).res))
    /\ pc' = [pc EXCEPT ![t] = "idle"]
    /\ UNCHANGED <<streams, config, env, self, call, reqs>>

InitKey ==
    /\ config \in { c \in Configs : c.api_key = None }
    /\ env \in EnvValues
    /\ key_cell = None
    /\ self = None
    /\ pc = [t \in Threads |-> "idle"]
    /\ call = [t \in Threads |-> NoCall]
    /\ reqs = <<>>
    /\ resps = <<>>
    /\ ret = [t \in Threads |-> None]
    /\ streams = <<>>

NextKey ==
    \/ \E t \in Threads : KeyRead(t)
    \/ \E t \in Threads : KeyInit(t)
    \/ EnvChange

SpecKey == InitKey /\ [][NextKey]_vars

\* the first call that returned a key
FirstKey ==
    CHOOSE i \in DOMAIN resps :
        /\ resps[i].res.ok
        /\ \A j \in 1 .. i - 1 : ~resps[j].res.ok

\* every call that returned a key returned the value the variable had at the
\* first of them
SameKeyAlways ==
    \A i \in DOMAIN resps :
        resps[i].res.ok => resps[i].res.val = resps[FirstKey].var[1]

\* C22: for any interleaving of calls of api_key() and changes of the
\* variable, a call fails with MissingCredentials exactly when the variable
\* is unset at the time of the call, even if a key was cached earlier, and
\* every successful call returns the value the variable had at the first
\* successful call.
C22_FailsIffUnset ==
    /\ \A i \in DOMAIN resps :
         /\ ~resps[i].res.ok <=> resps[i].var = <<>>
         /\ ~resps[i].res.ok => resps[i].res.err.kind = "MissingCredentials"
    /\ SameKeyAlways

\* C22, amended: a call fails with MissingCredentials exactly when the
\* variable is unset or holds a value that is not valid Unicode at the time
\* of the call, even if a key was cached earlier; every successful call
\* returns the value the variable had at the first successful call.
C22_FailsIffUnreadable ==
    /\ \A i \in DOMAIN resps :
         /\ ~resps[i].res.ok <=>
                (resps[i].var = <<>> \/ resps[i].var = <<"<bytes that are not valid Unicode>">>)
         /\ ~resps[i].res.ok => resps[i].res.err.kind = "MissingCredentials"
    /\ SameKeyAlways

\* a key was cached, a call failed while the variable was unset, and a later
\* call returned the cached key although the variable held another value
C22_Witness ==
    /\ Len(resps) >= 3
    /\ resps[1].res.ok
    /\ ~resps[2].res.ok
    /\ resps[2].var = <<>>
    /\ resps[3].res.ok
    /\ resps[3].var # resps[1].var
    /\ resps[3].res.val = resps[1].var[1]

====
